---- MODULE Spec2Model ----
(***************************************************************************)
(* golfhelper (src/src/script.py): the two click commands setup_tool and   *)
(* organize, the configuration file they share, the directory tree and     *)
(* the video files they create, and the ffmpeg child process organize      *)
(* talks to over two pipes.                                                *)
(*                                                                         *)
(* Paths, file names and YAML scalars are sequences of one-character       *)
(* strings, so that startswith, endswith, lower, str(counter),             *)
(* os.path.join and the YAML plain/quoted styles are computed as the       *)
(* code computes them.                                                     *)
(***************************************************************************)
EXTENDS Integers, Sequences, FiniteSets, TLC

\* ------------------------------------------------------------------ bounds
MaxRuns == 1      \* organize invocations in one behaviour
MaxSetups == 1    \* setup_tool invocations in one behaviour
MaxVideos == 1    \* videos the user records in one behaviour
StoreRuns == 2    \* organize invocations, configuration store alone
StoreSetups == 2  \* setup_tool invocations, configuration store alone
NamingRuns == 3   \* organize invocations, naming alone
PipeCap == 1      \* capacity of an OS pipe, in lines
MaxOut == 2       \* lines ffmpeg writes to one of its streams in one call

\* ------------------------------------------------------- string primitives
Digit == <<"0", "1", "2", "3", "4", "5", "6", "7", "8", "9">>

U2L == ("A" :> "a") @@ ("D" :> "d") @@ ("M" :> "m") @@ ("O" :> "o") @@
       ("P" :> "p") @@ ("V" :> "v") @@ ("I" :> "i") @@ ("W" :> "w") @@
       ("Y" :> "y") @@ ("N" :> "n")

\* str.lower()
Lower(s) == [i \in 1..Len(s) |-> IF s[i] \in DOMAIN U2L THEN U2L[s[i]] ELSE s[i]]

\* str.startswith / str.endswith
StartsWith(s, pre) == Len(s) >= Len(pre) /\ SubSeq(s, 1, Len(pre)) = pre
EndsWith(s, suf) == Len(s) >= Len(suf) /\ SubSeq(s, Len(s) - Len(suf) + 1, Len(s)) = suf

\* str(counter) for a non-negative int
RECURSIVE Str(_)
Str(n) == IF n < 10 THEN <<Digit[n + 1]>> ELSE Str(n \div 10) \o <<Digit[(n % 10) + 1]>>

IsDigits(s) == Len(s) > 0 /\ \A i \in 1..Len(s) : \E d \in 1..10 : Digit[d] = s[i]

DigitVal(c) == (CHOOSE d \in 1..10 : Digit[d] = c) - 1

\* int(text) of a string of decimal digits
RECURSIVE ParseInt(_)
ParseInt(s) == IF Len(s) = 0 THEN 0
               ELSE 10 * ParseInt(SubSeq(s, 1, Len(s) - 1)) + DigitVal(s[Len(s)])

\* ---------------------------------------------------------------- os.path
Home == <<"/", "h">>     \* the invoking user's home directory

\* os.path.expanduser (posix): "~" and "~/..." use the home directory; "~name"
\* of a user the password database does not know is returned unchanged.
ExpandUser(p) ==
    IF ~StartsWith(p, <<"~">>) THEN p
    ELSE IF Len(p) = 1 \/ p[2] = "/" THEN Home \o SubSeq(p, 2, Len(p))
    ELSE p

\* os.path.join(a, b) for a relative b
Join(a, b) == IF Len(a) = 0 THEN b
              ELSE IF a[Len(a)] = "/" THEN a \o b
              ELSE a \o <<"/">> \o b

\* --------------------------------------------------------------- constants
SUPPORTED_GOLF_CLUBS ==
    { <<"L">>, <<"S">>, <<"G">>, <<"A">>, <<"P">>,
      <<"9">>, <<"8">>, <<"7">>, <<"6">>, <<"5">>, <<"4">>, <<"3">>, <<"2">>, <<"1">>,
      <<"7", "W">>, <<"5", "W">>, <<"4", "W">>, <<"3", "W">>,
      <<"5", "H">>, <<"4", "H">>, <<"3", "H">>,
      <<"D">> }

KEY_ROOT == "ROOT"
KEY_MAX == "MAX_VIDEO_SIZE_MB"
BytesPerMB == 1024 * 1024

DotMov == <<".", "m", "o", "v">>
DotMp4 == <<".", "m", "p", "4">>
Unc == <<"_", "u", "n", "c">>
VideosName == <<"v", "i", "d", "e", "o", "s">>
AnalyzeName == <<"a", "n", "a", "l", "y", "z", "e">>

\* ------------------------------------------------------------------ inputs
Roots == { <<"~", "/", "g">>, <<"~", "x">>, <<"1">> }
Thresholds == {1, 5}
Clubs == { <<"D">>, <<"7", "W">> }
Dates == { <<"2", "6", "-", "1", "1", "-", "0", "4">> }
VideoArgs == { <<"a", ".", "m", "o", "v">>,
               <<"~", "/", "b", ".", "M", "P", "4">>,
               <<"c", ".", "t", "x", "t">>,
               <<"c", ".", "A", "V", "I">> }
Responses == {"y", "n", "Y", "N"}
Sizes == {BytesPerMB, BytesPerMB + 1}
WfRoot == <<"~", "/", "g">>
PipeSrc == <<"a", ".", "m", "o", "v">>
PipeClub == <<"D">>

\* ------------------------------------------------------------ Python values
PyStr(s) == [t |-> "str", v |-> s]
PyInt(n) == [t |-> "int", v |-> n]
PyNone == [t |-> "none", v |-> 0]

\* --------------------------------------------------------------------- YAML
\* The implicit resolver of PyYAML's safe loader on a plain scalar.
Resolve(text) ==
    IF IsDigits(text) THEN PyInt(ParseInt(text))
    ELSE IF text = <<"~">> \/ Len(text) = 0 THEN PyNone
    ELSE PyStr(text)

\* Mutant of Represent: every scalar is written plain.
RepresentPlain(val) ==
    IF val.t = "int" THEN [style |-> "plain", text |-> Str(val.v)]
    ELSE [style |-> "plain", text |-> val.v]

\* yaml.dump of one value: an int is written in decimal; a str is written plain
\* unless the plain text would resolve to something that is not a str, and then
\* it is written quoted.
Represent(val) ==
    IF val.t = "int" THEN [style |-> "plain", text |-> Str(val.v)]
    ELSE IF Resolve(val.v).t = "str" THEN [style |-> "plain", text |-> val.v]
    ELSE [style |-> "quoted", text |-> val.v]

\* yaml.dump(data, config, default_flow_style=False): a block mapping
YamlDump(data) == [k \in DOMAIN data |-> Represent(data[k])]

\* yaml.safe_load of one scalar node
Construct(node) == IF node.style = "quoted" THEN PyStr(node.text) ELSE Resolve(node.text)

EmptyDoc == <<>>

\* yaml.safe_load(config): an empty document loads as None
YamlLoad(doc) == IF doc = EmptyDoc THEN PyNone
                 ELSE [t |-> "dict", v |-> [k \in DOMAIN doc |-> Construct(doc[k])]]


\* ------------------------------------------------------------------- state
VARIABLES
    cfgDir,        \* the config directory (~/.config/golfhelper) exists
    cfgFile,       \* the document stored in config.yaml (EmptyDoc: truncated)
    dirs,          \* the directories setup_tool and organize have created
    fs,            \* the regular files: path -> content (vid, enc, size)
    pc,            \* where the running command is
    video, original_path, club,
    root_dir, max_video_size_bytes,
    output_file_compressed, output_file_uncompressed,
    video_size,
    child,         \* the ffmpeg process started by run_async
    pout, perr,    \* lines buffered in the child's stdout and stderr pipes
    rd,            \* the stream print_ffmpeg is reading
    log,           \* what the current organize run has logged at INFO or above
    exc,           \* the exception that ended the last command, or "none"
    fs0, dirs0,    \* the files and directories when organize was called
    calls, failed, \* the ffmpeg modes this run started, and those that failed
    answer,        \* the answer given to the delete prompt
    saved,         \* the arguments of the last setup_tool call, and how it ended
    runs, setups, vids

fsVars == <<cfgDir, cfgFile, dirs, fs>>
locals == <<video, original_path, club, root_dir, max_video_size_bytes,
            output_file_compressed, output_file_uncompressed, video_size>>
procVars == <<child, pout, perr, rd>>
ghost == <<fs0, dirs0, calls, failed, answer>>
counters == <<runs, setups, vids>>
vars == <<fsVars, pc, locals, procVars, log, exc, ghost, saved, counters>>

NoPath == <<>>
NoChild == [alive |-> FALSE, mode |-> "none", src |-> NoPath, dst |-> NoPath,
            outLeft |-> 0, errLeft |-> 0, status |-> 0]

Ended == {"returned", "crashed", "interrupted"}

Put(f, p, c) == [q \in (DOMAIN f) \cup {p} |-> IF q = p THEN c ELSE f[q]]
Del(f, p) == [q \in (DOMAIN f) \ {p} |-> f[q]]

\* os.path.exists
Exists(p) == p \in DOMAIN fs \/ p \in dirs

Init ==
    /\ cfgDir = FALSE /\ cfgFile = EmptyDoc /\ dirs = {} /\ fs = <<>>
    /\ pc = "idle"
    /\ video = NoPath /\ original_path = NoPath /\ club = NoPath
    /\ root_dir = PyNone /\ max_video_size_bytes = PyNone
    /\ output_file_compressed = NoPath /\ output_file_uncompressed = NoPath
    /\ video_size = -1
    /\ child = NoChild /\ pout = 0 /\ perr = 0 /\ rd = "none"
    /\ log = {} /\ exc = "none"
    /\ fs0 = <<>> /\ dirs0 = {} /\ calls = {} /\ failed = {} /\ answer = "none"
    /\ saved = [state |-> "never", root |-> NoPath, max |-> 0]
    /\ runs = 0 /\ setups = 0 /\ vids = 0

\* -------------------------------------------------------------- environment
\* The files the user may record a video to.
SrcFiles == { <<"a", ".", "m", "o", "v">>, Home \o <<"/", "b", ".", "M", "P", "4">> }

\* The user records a video: a new file appears at a source path.
Record(p, s) ==
    /\ pc = "idle" /\ p \notin DOMAIN fs
    /\ fs' = Put(fs, p, [vid |-> vids + 1, enc |-> "src", size |-> s])
    /\ vids' = vids + 1
    /\ UNCHANGED <<cfgDir, cfgFile, dirs, pc, locals, procVars, log, exc, ghost,
                   saved, runs, setups>>

\* --------------------------------------------------------------- setup_tool
\* get_config
GetConfig == IF ~cfgDir THEN PyNone ELSE YamlLoad(cfgFile)

\* The root setup_tool stores: root after lines 53-54.
SetupRoot(r) == IF StartsWith(r, <<"~">>) THEN ExpandUser(r) ELSE r

\* setup_tool(root, max_video_size_mb). open(.., 'w') truncates config.yaml before
\* os.makedirs(root) runs; when makedirs raises, nothing is dumped.
Setup(r, t, creatable) ==
    /\ pc = "idle"
    /\ cfgDir' = TRUE
    /\ IF creatable
       THEN /\ dirs' = dirs \cup {SetupRoot(r)}
            /\ cfgFile' = YamlDump((KEY_ROOT :> PyStr(SetupRoot(r))) @@ (KEY_MAX :> PyInt(t)))
            /\ exc' = "none"
            /\ saved' = [state |-> "ok", root |-> r, max |-> t]
       ELSE /\ dirs' = dirs
            /\ cfgFile' = EmptyDoc
            /\ exc' = "OSError"
            /\ saved' = [state |-> "failed", root |-> r, max |-> t]
    /\ pc' = IF creatable THEN "returned" ELSE "crashed"
    /\ setups' = setups + 1
    /\ UNCHANGED <<fs, locals, procVars, log, ghost, runs, vids>>


\* ------------------------------------------------------------------ organize
\* Mutant of Supported: any three-letter extension passes.
SupportedAnyExtension(v) == Len(v) >= 4 /\ v[Len(v) - 3] = "."

\* Line 88: the extension test.
Supported(v) == EndsWith(Lower(v), DotMov) \/ EndsWith(Lower(v), DotMp4)

\* Lines 101/106: os.path.join(golf_video_dir, club + "_" + str(counter))
OutputFile(dir, c, n) == Join(dir, c \o <<"_">> \o Str(n))
Compressed(base) == base \o DotMp4
\* Mutant of Uncompressed: the intermediate gets the final name.
UncompressedSameName(base) == base \o DotMp4

\* Lines 103/108: output_file + "_unc" + ".mp4"
Uncompressed(base) == base \o Unc \o DotMp4

\* Mutant of ScanCounter: the scan tests the intermediate's name.
RECURSIVE ScanCounterUnc(_, _, _)
ScanCounterUnc(dir, c, n) ==
    IF Exists(Uncompressed(OutputFile(dir, c, n))) THEN ScanCounterUnc(dir, c, n + 1) ELSE n

\* Lines 100-108: the first counter, from n on, whose compressed name is free.
RECURSIVE ScanCounter(_, _, _)
ScanCounter(dir, c, n) ==
    IF Exists(Compressed(OutputFile(dir, c, n))) THEN ScanCounter(dir, c, n + 1) ELSE n

\* Line 86: config[MAX_VIDEO_SIZE_MB] * 1024 * 1024
MaxBytes(val) == IF val.t = "int" THEN PyInt(val.v * BytesPerMB) ELSE val

\* Lines 73-90: expand the path, load the config, test the extension.
\* get_config logs an error and returns None when the config directory is
\* missing; subscripting None at line 85 raises TypeError.
OrgStart(v, c) ==
    /\ pc = "idle"
    /\ runs' = runs + 1
    /\ LET path == IF StartsWith(v, <<"~">>) THEN ExpandUser(v) ELSE v
           config == GetConfig
       IN  /\ video' = path /\ original_path' = path /\ club' = c
           /\ IF config.t # "dict"
              THEN /\ log' = IF ~cfgDir THEN {"ERROR: Config not found"} ELSE {}
                   /\ exc' = "TypeError" /\ pc' = "crashed"
                   /\ root_dir' = PyNone /\ max_video_size_bytes' = PyNone
              ELSE /\ root_dir' = config.v[KEY_ROOT]
                   /\ max_video_size_bytes' = MaxBytes(config.v[KEY_MAX])
                   /\ exc' = "none"
                   /\ IF ~Supported(path)
                      THEN log' = {"ERROR: not a supported format"} /\ pc' = "returned"
                      ELSE log' = {} /\ pc' = "prepare"
    /\ output_file_compressed' = NoPath /\ output_file_uncompressed' = NoPath
    /\ video_size' = -1
    /\ fs0' = fs /\ dirs0' = dirs /\ calls' = {} /\ failed' = {} /\ answer' = "none"
    /\ UNCHANGED <<fsVars, procVars, saved, setups, vids>>

\* Lines 92-108: create the day's directories, then scan for a free name.
\* os.path.join raises TypeError when root_dir is not a str.
OrgPrepare(date) ==
    /\ pc = "prepare"
    /\ IF root_dir.t # "str"
       THEN /\ exc' = "TypeError" /\ pc' = "crashed"
            /\ UNCHANGED <<dirs, output_file_compressed, output_file_uncompressed>>
       ELSE LET new_golf_dir == Join(root_dir.v, date)
                golf_video_dir == Join(new_golf_dir, VideosName)
                golf_analysis_dir == Join(new_golf_dir, AnalyzeName)
                counter == ScanCounter(golf_video_dir, club, 0)
                output_file == OutputFile(golf_video_dir, club, counter)
            IN  /\ dirs' = dirs \cup {root_dir.v, new_golf_dir, golf_video_dir, golf_analysis_dir}
                /\ output_file_compressed' = Compressed(output_file)
                /\ output_file_uncompressed' = Uncompressed(output_file)
                /\ pc' = "convert" /\ exc' = exc
    /\ UNCHANGED <<cfgDir, cfgFile, fs, video, original_path, club, root_dir,
                   max_video_size_bytes, video_size, procVars, log, ghost, saved, counters>>

\* run_async: ffmpeg starts with both pipes empty; how much it will write to
\* each stream is its own business.
Spawn(mode, src, dst, no, ne) ==
    /\ child' = [alive |-> TRUE, mode |-> mode, src |-> src, dst |-> dst,
                 outLeft |-> no, errLeft |-> ne, status |-> 0]
    /\ pout' = 0 /\ perr' = 0 /\ rd' = "stdout"
    /\ calls' = calls \cup {mode}

\* Lines 111-120: a .mov input is remuxed into the _unc intermediate.
OrgConvert(no, ne) ==
    /\ pc = "convert"
    /\ IF EndsWith(Lower(video), DotMov)
       THEN /\ log' = log \cup {"INFO: Converting"}
            /\ Spawn("remux", video, output_file_uncompressed, no, ne)
            /\ pc' = "remux"
       ELSE /\ pc' = "measure"
            /\ UNCHANGED <<log, procVars, calls>>
    /\ UNCHANGED <<fsVars, locals, exc, fs0, dirs0, failed, answer, saved, counters>>

\* ffmpeg writes a line to its stdout; the write blocks while the pipe is full.
ChildWriteOut ==
    /\ pc \in {"remux", "compress"} /\ child.alive
    /\ child.outLeft > 0 /\ pout < PipeCap
    /\ pout' = pout + 1
    /\ child' = [child EXCEPT !.outLeft = @ - 1]
    /\ UNCHANGED <<fsVars, pc, locals, perr, rd, log, exc, ghost, saved, counters>>

\* ffmpeg writes a line to its stderr; the write blocks while the pipe is full.
ChildWriteErr ==
    /\ pc \in {"remux", "compress"} /\ child.alive
    /\ child.errLeft > 0 /\ perr < PipeCap
    /\ perr' = perr + 1
    /\ child' = [child EXCEPT !.errLeft = @ - 1]
    /\ UNCHANGED <<fsVars, pc, locals, pout, rd, log, exc, ghost, saved, counters>>

\* What an ffmpeg run leaves at its output path (-y: overwrite). "ok": the
\* input's video, re-written; "junk": a file that holds no video; "none": the
\* run failed before it opened its output.
Effect(f, c, outcome, size) ==
    IF outcome = "ok" THEN Put(f, c.dst, [vid |-> f[c.src].vid, enc |-> c.mode, size |-> size])
    ELSE IF outcome = "junk" THEN Put(f, c.dst, [vid |-> 0, enc |-> "junk", size |-> size])
    ELSE f

\* ffmpeg can succeed only on an input that exists and holds a video.
CanSucceed(c) == c.src \in DOMAIN fs /\ fs[c.src].enc # "junk"

\* ffmpeg exits, having written all it had to say; its pipes close.
ChildExit(outcome, size) ==
    /\ pc \in {"remux", "compress"} /\ child.alive
    /\ child.outLeft = 0 /\ child.errLeft = 0
    /\ outcome = "ok" => CanSucceed(child)
    /\ fs' = Effect(fs, child, outcome, size)
    /\ child' = [child EXCEPT !.alive = FALSE, !.status = IF outcome = "ok" THEN 0 ELSE 1]
    /\ failed' = IF outcome = "ok" THEN failed ELSE failed \cup {child.mode}
    /\ UNCHANGED <<cfgDir, cfgFile, dirs, pc, locals, pout, perr, rd, log, exc,
                   fs0, dirs0, calls, answer, saved, counters>>

\* Lines 148-149: print_ffmpeg takes a line from stdout.
ReadOut ==
    /\ pc \in {"remux", "compress"} /\ rd = "stdout" /\ pout > 0
    /\ pout' = pout - 1
    /\ UNCHANGED <<fsVars, pc, locals, child, perr, rd, log, exc, ghost, saved, counters>>

\* Line 148: stdout is at end-of-file once it is empty and the child has exited.
ReadOutEof ==
    /\ pc \in {"remux", "compress"} /\ rd = "stdout" /\ pout = 0 /\ ~child.alive
    /\ rd' = "stderr"
    /\ UNCHANGED <<fsVars, pc, locals, child, pout, perr, log, exc, ghost, saved, counters>>

\* Lines 150-151: print_ffmpeg takes a line from stderr.
ReadErr ==
    /\ pc \in {"remux", "compress"} /\ rd = "stderr" /\ perr > 0
    /\ perr' = perr - 1
    /\ UNCHANGED <<fsVars, pc, locals, child, pout, rd, log, exc, ghost, saved, counters>>

\* Mutant of AfterWait: a non-zero exit status ends the run.
AfterWaitChecked(mode, status) ==
    IF status # 0 THEN "crashed" ELSE IF mode = "remux" THEN "measure" ELSE "cleanup"

\* Lines 122 and 136: where organize goes once wait() has returned the child's
\* exit status, which it drops.
AfterWait(mode, status) == IF mode = "remux" THEN "measure" ELSE "cleanup"

\* Line 150 at end-of-file, then lines 121-122 (remux) or 136 (compress): wait()
\* returns at once, the child having exited.
ReadErrEof ==
    /\ pc \in {"remux", "compress"} /\ rd = "stderr" /\ perr = 0 /\ ~child.alive
    /\ rd' = "none"
    /\ video' = IF pc = "remux" THEN output_file_uncompressed ELSE video
    /\ pc' = AfterWait(pc, child.status)
    /\ UNCHANGED <<fsVars, original_path, club, root_dir, max_video_size_bytes,
                   output_file_compressed, output_file_uncompressed, video_size,
                   child, pout, perr, log, exc, ghost, saved, counters>>

\* Mutant of OverThreshold: the comparison is not strict.
OverThresholdOrEqual(size, max) == size >= max

\* Line 126: video_size > max_video_size_bytes
OverThreshold(size, max) == size > max

\* Lines 125-138: os.path.getsize raises when the candidate does not exist;
\* a candidate over the threshold is compressed, any other is renamed.
OrgMeasure(no, ne) ==
    /\ pc = "measure"
    /\ IF video \notin DOMAIN fs
       THEN /\ exc' = "FileNotFoundError" /\ pc' = "crashed"
            /\ UNCHANGED <<fs, video_size, procVars, log, calls>>
       ELSE /\ video_size' = fs[video].size
            /\ IF max_video_size_bytes.t # "int"
               THEN /\ exc' = "TypeError" /\ pc' = "crashed"
                    /\ UNCHANGED <<fs, procVars, log, calls>>
               ELSE IF OverThreshold(fs[video].size, max_video_size_bytes.v)
               THEN /\ log' = log \cup {"INFO: Compressing"}
                    /\ Spawn("compress", video, output_file_compressed, no, ne)
                    /\ pc' = "compress"
                    /\ UNCHANGED <<fs, exc>>
               ELSE /\ fs' = Put(Del(fs, video), output_file_compressed, fs[video])
                    /\ pc' = "cleanup"
                    /\ UNCHANGED <<procVars, log, calls, exc>>
    /\ UNCHANGED <<cfgDir, cfgFile, dirs, video, original_path, club, root_dir,
                   max_video_size_bytes, output_file_compressed,
                   output_file_uncompressed, fs0, dirs0, failed, answer, saved, counters>>

\* Lines 139-142: remove the intermediate if it is there; report the output.
OrgCleanup ==
    /\ pc = "cleanup"
    /\ IF Exists(output_file_uncompressed)
       THEN /\ fs' = Del(fs, output_file_uncompressed)
            /\ log' = log \cup {"INFO: Removing uncompressed", "INFO: Created a video"}
       ELSE /\ fs' = fs
            /\ log' = log \cup {"INFO: Created a video"}
    /\ pc' = "prompt"
    /\ UNCHANGED <<cfgDir, cfgFile, dirs, locals, procVars, exc, ghost, saved, counters>>

\* Lines 143-145: the delete prompt. os.remove raises when the file is gone.
OrgPrompt(response) ==
    /\ pc = "prompt"
    /\ answer' = response
    /\ IF Lower(<<response>>) = <<"y">>
       THEN IF original_path \in DOMAIN fs
            THEN fs' = Del(fs, original_path) /\ pc' = "returned" /\ exc' = exc
            ELSE fs' = fs /\ pc' = "crashed" /\ exc' = "FileNotFoundError"
       ELSE fs' = fs /\ pc' = "returned" /\ exc' = exc
    /\ UNCHANGED <<cfgDir, cfgFile, dirs, locals, procVars, log, fs0, dirs0, calls,
                   failed, saved, counters>>

\* The user interrupts organize (Ctrl-C); a running ffmpeg dies with it and may
\* leave a partial output file.
Interrupt(outcome) ==
    /\ pc \in {"prepare", "convert", "remux", "measure", "compress", "cleanup", "prompt"}
    /\ pc' = "interrupted" /\ exc' = "KeyboardInterrupt"
    /\ IF child.alive
       THEN /\ fs' = Effect(fs, child, outcome, 0)
            /\ child' = [child EXCEPT !.alive = FALSE, !.status = 1]
            /\ failed' = failed \cup {child.mode}
       ELSE /\ outcome = "none"
            /\ UNCHANGED <<fs, child, failed>>
    /\ UNCHANGED <<cfgDir, cfgFile, dirs, locals, pout, perr, rd, log, fs0, dirs0,
                   calls, answer, saved, counters>>

\* The Python process ends: its variables are gone, the files stay.
ProcessExit ==
    /\ pc \in Ended
    /\ pc' = "idle"
    /\ video' = NoPath /\ original_path' = NoPath /\ club' = NoPath
    /\ root_dir' = PyNone /\ max_video_size_bytes' = PyNone
    /\ output_file_compressed' = NoPath /\ output_file_uncompressed' = NoPath
    /\ video_size' = -1
    /\ child' = NoChild /\ pout' = 0 /\ perr' = 0 /\ rd' = "none"
    /\ log' = {} /\ exc' = "none"
    /\ fs0' = <<>> /\ dirs0' = {} /\ calls' = {} /\ failed' = {} /\ answer' = "none"
    /\ UNCHANGED <<fsVars, saved, counters>>

\* ------------------------------------------------------------ specifications
\* The organize workflow on one configured root: every video argument, club,
\* ffmpeg outcome and answer; ffmpeg's output fits the pipes.
Next ==
    \/ vids < MaxVideos /\ \E p \in SrcFiles, s \in Sizes : Record(p, s)
    \/ setups < MaxSetups /\ \E t \in Thresholds : Setup(WfRoot, t, TRUE)
    \/ runs < MaxRuns /\ \E v \in VideoArgs \cup DOMAIN fs, c \in Clubs : OrgStart(v, c)
    \/ \E d \in Dates : OrgPrepare(d)
    \/ OrgConvert(1, 1)
    \/ ChildWriteOut
    \/ ChildWriteErr
    \/ \E outcome \in {"ok", "none", "junk"}, size \in Sizes : ChildExit(outcome, size)
    \/ ReadOut
    \/ ReadOutEof
    \/ ReadErr
    \/ ReadErrEof
    \/ OrgMeasure(1, 1)
    \/ OrgCleanup
    \/ \E response \in Responses : OrgPrompt(response)
    \/ \E outcome \in {"none", "junk"} : Interrupt(outcome)
    \/ ProcessExit

Spec == Init /\ [][Next]_vars

\* The configuration store: every root and threshold, setup_tool failing or
\* not, and organize up to the end of its preparation.
NextStore ==
    \/ setups < StoreSetups /\ \E r \in Roots, t \in Thresholds, creatable \in BOOLEAN : Setup(r, t, creatable)
    \/ runs < StoreRuns /\ \E v \in VideoArgs, c \in Clubs : OrgStart(v, c)
    \/ \E d \in Dates : OrgPrepare(d)
    \/ Interrupt("none")
    \/ ProcessExit

SpecStore == Init /\ [][NextStore]_vars

\* The ffmpeg child and print_ffmpeg: every amount of output on either stream.
NextPipes ==
    \/ vids < MaxVideos /\ \E s \in Sizes : Record(PipeSrc, s)
    \/ setups < MaxSetups /\ \E t \in Thresholds : Setup(WfRoot, t, TRUE)
    \/ runs < MaxRuns /\ OrgStart(PipeSrc, PipeClub)
    \/ \E d \in Dates : OrgPrepare(d)
    \/ \E no \in 0..MaxOut, ne \in 0..MaxOut : OrgConvert(no, ne)
    \/ ChildWriteOut
    \/ ChildWriteErr
    \/ \E outcome \in {"ok", "none"}, size \in Sizes : ChildExit(outcome, size)
    \/ ReadOut
    \/ ReadOutEof
    \/ ReadErr
    \/ ReadErrEof
    \/ \E no \in 0..MaxOut, ne \in 0..MaxOut : OrgMeasure(no, ne)
    \/ OrgCleanup
    \/ \E response \in Responses : OrgPrompt(response)
    \/ Interrupt("none")
    \/ ProcessExit

SpecPipes == Init /\ [][NextPipes]_vars

\* Naming: repeated runs over the same day's directory, organized files given
\* back as input, ffmpeg succeeding or leaving nothing.
NextNaming ==
    \/ vids < MaxVideos /\ Record(PipeSrc, BytesPerMB)
    \/ setups < MaxSetups /\ Setup(WfRoot, 1, TRUE)
    \/ runs < NamingRuns /\ \E v \in {PipeSrc} \cup DOMAIN fs, c \in Clubs : OrgStart(v, c)
    \/ \E d \in Dates : OrgPrepare(d)
    \/ OrgConvert(0, 0)
    \/ \E outcome \in {"ok", "none"} : ChildExit(outcome, BytesPerMB)
    \/ ReadOutEof
    \/ ReadErrEof
    \/ OrgMeasure(0, 0)
    \/ OrgCleanup
    \/ \E response \in {"y", "n"} : OrgPrompt(response)
    \/ Interrupt("none")
    \/ ProcessExit

SpecNaming == Init /\ [][NextNaming]_vars


\* ==================================================================== claims
\* An organize run is under way or has just ended (setup_tool leaves
\* original_path unset).
InRun == original_path # NoPath /\ pc # "idle"

\* The threshold in bytes that the last setup_tool call asked for.
Thr == saved.max * 1024 * 1024

IsMov(p) == EndsWith(Lower(p), DotMov)
IsMp4(p) == EndsWith(Lower(p), DotMp4)

\* The videos directories organize may be working in.
VideoDirs == IF root_dir.t = "str"
             THEN { root_dir.v \o <<"/">> \o d \o <<"/">> \o VideosName : d \in Dates }
             ELSE {}

\* <dir>/<club>_<n>.mp4
FinalName(dir, c, n) == dir \o <<"/">> \o c \o <<"_">> \o Str(n) \o DotMp4

MaxIndex == Cardinality(DOMAIN fs0)

\* C1: the output path organize chooses is <club>_<N>.mp4 for the smallest N >= 0
\* whose <club>_<N>.mp4 did not exist when organize was called, and no
\* <club>_<K>.mp4 that existed then is ever written over.
C1_SmallestFreeIndex ==
    (InRun /\ output_file_compressed # NoPath) =>
        /\ \E dir \in VideoDirs, n \in 0..MaxIndex :
              /\ output_file_compressed = FinalName(dir, club, n)
              /\ FinalName(dir, club, n) \notin DOMAIN fs0
              /\ \A k \in 0..(n - 1) : FinalName(dir, club, k) \in DOMAIN fs0
        /\ \A dir \in VideoDirs, c \in SUPPORTED_GOLF_CLUBS, k \in 0..MaxIndex :
              (FinalName(dir, c, k) \in DOMAIN fs0 /\ FinalName(dir, c, k) \in DOMAIN fs)
                  => fs[FinalName(dir, c, k)] = fs0[FinalName(dir, c, k)]

\* C1 witness: <club>_0.mp4 and <club>_1.mp4 existed at the call, and the run has
\* put its output at <club>_2.mp4.
C1_Witness ==
    /\ pc = "prompt"
    /\ \E dir \in VideoDirs :
          /\ FinalName(dir, club, 0) \in DOMAIN fs0
          /\ FinalName(dir, club, 1) \in DOMAIN fs0
          /\ output_file_compressed = FinalName(dir, club, 2)
          /\ output_file_compressed \in DOMAIN fs

\* The case of C2: a .mp4 input that existed at the call, not over the threshold.
C2_Case ==
    /\ InRun /\ saved.state = "ok" /\ IsMp4(original_path)
    /\ original_path \in DOMAIN fs0 /\ fs0[original_path].size <= Thr

\* C2: for a .mp4 input not over the threshold the source file stays at its path
\* until the user confirms: it exists at the prompt, it exists after an answer
\* of 'n', and an answer of 'y' deletes it without an error.
C2_OriginalKeptUntilConfirmed ==
    C2_Case =>
        /\ pc = "prompt" => original_path \in DOMAIN fs
        /\ (pc = "returned" /\ Lower(<<answer>>) = <<"n">>) => original_path \in DOMAIN fs
        /\ Lower(<<answer>>) = <<"y">> => pc = "returned" /\ exc = "none"

\* C3, in every state: compress has been started exactly when the measured
\* size is over MAX_VIDEO_SIZE_MB * 1024 * 1024.
C3_Calls ==
    (InRun /\ saved.state = "ok") =>
        ("compress" \in calls <=> (video_size # -1 /\ video_size > Thr))

\* C3, in the step that measures: over the threshold, ffmpeg is started in
\* compress mode from the candidate to the computed output path and no file
\* changes; otherwise the candidate's bytes move to the computed output path
\* and nothing is started.
C3_MeasureStep ==
    (pc = "measure" /\ pc' \in {"compress", "cleanup"}) =>
        IF fs[video].size > Thr
        THEN /\ pc' = "compress" /\ fs' = fs
             /\ child'.alive /\ child'.mode = "compress"
             /\ child'.src = video /\ child'.dst = output_file_compressed
        ELSE /\ pc' = "cleanup" /\ "compress" \notin calls' /\ child' = child
             /\ output_file_compressed \in DOMAIN fs'
             /\ fs'[output_file_compressed] = fs[video]
             /\ video \notin DOMAIN fs'

\* C3: the compress collaborator is invoked if and only if the candidate's size
\* is strictly greater than MAX_VIDEO_SIZE_MB * 1024 * 1024; a candidate at or
\* below the threshold is moved to the output path with its bytes unchanged.
C3_CompressIffOverThreshold == [](C3_Calls) /\ [][C3_MeasureStep]_vars

\* C3 witness: a candidate of exactly the threshold has been moved, uncompressed.
C3_Witness ==
    /\ InRun /\ pc = "cleanup" /\ video_size = Thr /\ calls = {}
    /\ output_file_compressed \in DOMAIN fs
    /\ fs[output_file_compressed] = fs0[original_path]

\* The case of C4: setup has succeeded and the lower-cased video path ends in
\* neither .mov nor .mp4.
C4_Case ==
    /\ InRun /\ saved.state = "ok"
    /\ ~EndsWith(Lower(original_path), DotMov) /\ ~EndsWith(Lower(original_path), DotMp4)

\* C4: after setup, organize on an unsupported extension reports the error and
\* returns having created no directory, changed no file, started no
\* collaborator and put no prompt.
C4_RejectedFormatNoEffects ==
    C4_Case =>
        /\ pc = "returned" /\ exc = "none"
        /\ log = {"ERROR: not a supported format"}
        /\ fs = fs0 /\ dirs = dirs0
        /\ calls = {} /\ ~child.alive /\ answer = "none"

\* C4 witness: a rejected run, with a video on disk and the root created.
C4_Witness == C4_Case /\ pc = "returned" /\ DOMAIN fs0 # {} /\ dirs0 # {}

\* C5: organize without a config directory reports "not configured" and ends as
\* a reported abort, not an unhandled failure, with no filesystem side effects.
C5_MissingConfigReportedAbort ==
    (InRun /\ ~cfgDir) =>
        /\ pc = "returned" /\ exc = "none"
        /\ "ERROR: Config not found" \in log
        /\ fs = fs0 /\ dirs = dirs0

\* The case of C6: a .mov input whose remuxed intermediate was measured and is
\* not over the threshold.
C6_Case ==
    /\ InRun /\ saved.state = "ok" /\ IsMov(original_path)
    /\ video = output_file_uncompressed
    /\ video_size # -1 /\ video_size <= Thr

\* C6: for a .mov input whose intermediate is not over the threshold, the
\* intermediate (not the source) is renamed to the final path, compress is not
\* started, and at the delete prompt no file is at the _unc path.
C6_RemuxThenRename ==
    C6_Case =>
        /\ "compress" \notin calls
        /\ pc \in {"cleanup", "prompt"} =>
              /\ output_file_compressed \in DOMAIN fs
              /\ fs[output_file_compressed].size = video_size
              /\ original_path \in DOMAIN fs0 =>
                    (original_path \in DOMAIN fs /\ fs[original_path] = fs0[original_path])
        /\ pc = "prompt" => output_file_uncompressed \notin DOMAIN fs

\* C6 witness: at the prompt after a successful remux, the remuxed video at the
\* final path.
C6_Witness ==
    /\ C6_Case /\ pc = "prompt" /\ failed = {}
    /\ original_path \in DOMAIN fs0
    /\ fs[output_file_compressed] =
          [vid |-> fs0[original_path].vid, enc |-> "remux", size |-> video_size]

\* The root a successful setup_tool(r, ..) stores: r with a leading "~" or "~/"
\* replaced by the home directory.
C7_Expanded(r) ==
    IF r[1] = "~" /\ (Len(r) = 1 \/ r[2] = "/") THEN Home \o SubSeq(r, 2, Len(r)) ELSE r

C8_ProceedsRegardless ==
    (InRun /\ failed # {} /\ pc = "crashed") => answer # "none"

\* C8 amended, in every state: after a failed call the only exception that can
\* end organize before the prompt is the size measurement not finding the
\* intermediate of a failed remux.
C8_OnlyMissingCandidateStops ==
    (InRun /\ failed # {} /\ pc = "crashed" /\ answer = "none") =>
        /\ exc = "FileNotFoundError" /\ calls = {"remux"} /\ failed = {"remux"}
        /\ video = output_file_uncompressed /\ video \notin DOMAIN fs
        /\ video_size = -1

\* C8 amended, in every step: whatever the exit status, the wait after remux is
\* followed by the measurement, a measurement that finds its candidate by
\* compress or rename, the wait after compress by the cleanup, and the cleanup
\* by the report and the prompt.
C8_NextStep ==
    /\ (pc = "remux" /\ pc' \notin {"remux", "interrupted"}) => pc' = "measure"
    /\ (pc = "measure" /\ video \in DOMAIN fs /\ pc' \notin {"measure", "interrupted"})
          => pc' \in {"compress", "cleanup"}
    /\ (pc = "compress" /\ pc' \notin {"compress", "interrupted"}) => pc' = "cleanup"
    /\ (pc = "cleanup" /\ pc' \notin {"cleanup", "interrupted"})
          => (pc' = "prompt" /\ "INFO: Created a video" \in log')

\* C8 amended: organize does not inspect a collaborator's failure; it goes on to
\* the next step, except that a failed remux which left no intermediate ends it
\* with FileNotFoundError at the size measurement.
C8_ProceedsUnlessNoCandidate == [](C8_OnlyMissingCandidateStops) /\ [][C8_NextStep]_vars

\* C8 witness: compress failed and left nothing, and organize has reported the
\* output and reached the prompt.
C8_Witness ==
    /\ InRun /\ pc = "prompt" /\ "compress" \in failed
    /\ "INFO: Created a video" \in log
    /\ output_file_compressed \notin DOMAIN fs

\* C9: organize never loses the video: in every state a file holding it is at
\* the source path, the intermediate path or the final path, and the source is
\* gone only when a file is at the final path.
C9_VideoNeverLost ==
    (InRun /\ original_path \in DOMAIN fs0) =>
        /\ \E p \in {original_path, output_file_uncompressed, output_file_compressed} :
              p \in DOMAIN fs /\ fs[p].vid = fs0[original_path].vid
        /\ original_path \notin DOMAIN fs => output_file_compressed \in DOMAIN fs

\* C10: while a collaborator call is under way, ffmpeg or print_ffmpeg can
\* always take a step: the pair never deadlocks.
C10_NeverDeadlocks ==
    pc \in {"remux", "compress"} =>
        \/ child.alive /\ child.outLeft > 0 /\ pout < PipeCap
        \/ child.alive /\ child.errLeft > 0 /\ perr < PipeCap
        \/ child.alive /\ child.outLeft = 0 /\ child.errLeft = 0
        \/ rd = "stdout" /\ (pout > 0 \/ ~child.alive)
        \/ rd = "stderr" /\ (perr > 0 \/ ~child.alive)

====
